---- MODULE Spec2Model ----
(***************************************************************************)
(* Model of the document store of acme-rag-api                             *)
(* (src/app/services/store.py): the in-memory FAISS index and metadata     *)
(* list, the two persisted artifacts (index.faiss, metadata.pkl), the      *)
(* write path StoreService.add with its persist step StoreService._save,   *)
(* and process start-up StoreService.__init__ / StoreService._load.        *)
(*                                                                         *)
(* A process can die at any point; the next start-up runs _load on         *)
(* whatever the two files hold at that moment.  A file that was opened for *)
(* writing and not completely written is unreadable ("corrupt"): both      *)
(* faiss.read_index and pickle.load raise on a truncated stream.           *)
(***************************************************************************)
EXTENDS Integers, Sequences, FiniteSets, TLC

\* ------------------------------------------------------------------ bounds
NumContents == 2          \* distinct document texts offered to add
MaxRestarts == 1          \* process starts after the first one
MaxCorpus   == 3          \* records of a corpus offered to search
MaxK        == 2          \* largest k of a search request
MaxPieces   == 4           \* pieces of a text offered to format_snippet
MaxOrdinal  == 12         \* largest ordinal looked for in a doc_id

\* --------------------------------------------------------------- constants
DOC_ID_PREFIX == "doc_"
SEARCH_K_MULTIPLIER == 2

ContentPool == <<"alpha", "beta", "gamma", "delta", "epsilon">>
Contents    == {ContentPool[i] : i \in 1..NumContents}
Languages   == {"en", "ja"}
Threads     == {1}          \* the handlers run one at a time on one event loop

\* The language tags the detector may attach to a text: either tag for the
\* first text, one fixed tag for each other text.
DetectedLanguages(content) ==
    IF content = ContentPool[1] THEN Languages
    ELSE IF content = ContentPool[2] THEN {"ja"} ELSE {"en"}

\* hashlib.sha256(content.encode("utf-8")).hexdigest(): a digest of the text,
\* distinct for distinct texts (collision resistance of SHA-256).
_compute_hash(content) == "sha256:" \o content

\* EmbeddingService.embed: the vector of a text.  Distinct texts get distinct
\* vectors; several vectors are at the same distance from a query.
PoolIndex(content) == CHOOSE i \in 1..Len(ContentPool) : ContentPool[i] = content
embed(content) == <<PoolIndex(content) % 2, PoolIndex(content) \div 2>>

\* ------------------------------------------------------------------- state
VARIABLES
    index,       \* self.index: [present, vecs]; present = FALSE is None
    metadata,    \* self.metadata: sequence of metadata entries
    indexFile,   \* index.faiss on disk: [st, data], st in missing/corrupt/ok
    metaFile,    \* metadata.pkl on disk: [st, data]
    pc,          \* pc[t]: where handler t is inside add / _save
    call,        \* call[t]: arguments and locals of the add in progress
    result,      \* result[t]: what the last add of t returned or raised
    acked,       \* history: the texts whose add returned added=True
    tracked,     \* history: one add that returned added=True, any of them
    restarts,    \* history: number of process starts after the first
    boot,        \* history: what the last start-up found (until the next add)
    faulted,     \* history: some persist step was cut short or raised
    startedEmpty, \* history: this process started with an empty store
    srch,        \* the last search / retrieve request and what it returned
    overlap,     \* history: the requests now in flight were in flight together
    snip,        \* the last format_snippet call: arguments and return value
    http         \* the last HTTP request and what the middleware answered

vars == <<index, metadata, indexFile, metaFile, pc, call, result,
          acked, tracked, restarts, boot, faulted, startedEmpty, srch, overlap, snip, http>>

NoIndex   == [present |-> FALSE, vecs |-> <<>>]
NoFile    == [st |-> "missing", data |-> <<>>]
Truncated == [st |-> "corrupt", data |-> <<>>]
OkFile(d) == [st |-> "ok", data |-> d]

NoCall   == [content |-> "", language |-> "", hash |-> "", embedding |-> <<>>,
             entry |-> <<>>, sizeBefore |-> 0, prior |-> {},
             preMeta |-> <<>>, preVecs |-> 0]
NoResult == [kind |-> "none", content |-> "", doc_id |-> "", added |-> FALSE,
             sizeBefore |-> 0, sizeAfter |-> 0, prior |-> {}, language |-> ""]
NoBoot == [kind |-> "none", idx |-> NoFile, meta |-> NoFile,
              preMeta |-> <<>>, preVecs |-> 0, inAdd |-> FALSE]

NoSnippet == [content |-> <<>>, max_length |-> 0, out |-> <<>>, done |-> FALSE,
              by |-> ""]
NoRequest == [path |-> "", key |-> "", expected |-> "", body |-> <<>>,
              status |-> 0, message |-> "", handled |-> FALSE]
NoSearch == [op |-> "none", q |-> <<>>, k |-> 0, hits |-> <<>>, out |-> <<>>,
             embedCalls |-> 0, indexQueries |-> 0, nvecs |-> 0, nrecs |-> 0, during |-> {},
             found |-> <<>>]

\* faiss index.ntotal
ntotal(ix) == Len(ix.vecs)

\* StoreService.get_size
get_size(md) == IF md # <<>> THEN Len(md) ELSE 0

\* StoreService._find_existing_content: positions of the entries whose hash
\* matches; the loop returns the first one.
Matches_skip_last(md, content_hash) ==
    {i \in 1..(Len(md) - 1) : md[i].hash = content_hash}
Matches(md, content_hash) == {i \in 1..Len(md) : md[i].hash = content_hash}
_find_existing_content_by_content(md, content_hash) ==
    IF {i \in 1..Len(md) : md[i].content = content_hash} = {} THEN <<>>
    ELSE <<md[CHOOSE i \in 1..Len(md) : md[i].content = content_hash]>>
_find_existing_content(md, content_hash) ==
    IF Matches(md, content_hash) = {} THEN <<>>
    ELSE <<md[CHOOSE i \in Matches(md, content_hash) :
                 \A j \in Matches(md, content_hash) : i <= j]>>

\* StoreService._create_metadata_entry
_create_metadata_entry_one_based(md, content, language, content_hash) ==
    [doc_id   |-> DOC_ID_PREFIX \o ToString(Len(md)),
     hash     |-> content_hash,
     language |-> language,
     content  |-> content,
     index    |-> Len(md) + 1]
_create_metadata_entry(md, content, language, content_hash) ==
    [doc_id   |-> DOC_ID_PREFIX \o ToString(Len(md)),
     hash     |-> content_hash,
     language |-> language,
     content  |-> content,
     index    |-> Len(md)]

\* StoreService._initialize_index_if_needed followed by self.index.add
_initialize_index_if_needed(ix) ==
    IF ix.present THEN ix ELSE [present |-> TRUE, vecs |-> <<>>]
index_add(ix, v) == [present |-> TRUE, vecs |-> Append(ix.vecs, v)]

\* StoreService._load: what start-up adopts from the two files.
_load_partial(idxF, metaF) ==
    IF idxF.st # "missing" /\ metaF.st # "missing"
    THEN IF idxF.st = "ok"
         THEN [index |-> [present |-> TRUE, vecs |-> idxF.data],
               metadata |-> IF metaF.st = "ok" THEN metaF.data ELSE <<>>]
         ELSE [index |-> NoIndex, metadata |-> <<>>]
    ELSE [index |-> NoIndex, metadata |-> <<>>]
_load(idxF, metaF) ==
    IF idxF.st # "missing" /\ metaF.st # "missing"
    THEN IF idxF.st = "ok" /\ metaF.st = "ok"
         THEN [index |-> [present |-> TRUE, vecs |-> idxF.data],
               metadata |-> metaF.data]
         ELSE [index |-> NoIndex, metadata |-> <<>>]
    ELSE [index |-> NoIndex, metadata |-> <<>>]

Idle == \A t \in Threads : pc[t] = "idle"

NoAck == [content |-> "", doc_id |-> "", live |-> FALSE]

\* The doc_id this process has acknowledged for the text, if the tracked
\* add is of this text and of this process.
PriorAck(content) ==
    IF tracked.live /\ tracked.content = content THEN {tracked.doc_id} ELSE {}

Raise(t, kind) ==
    /\ pc' = [pc EXCEPT ![t] = "idle"]
    /\ result' = [result EXCEPT ![t] =
           [NoResult EXCEPT !.kind = kind, !.content = call[t].content,
                            !.sizeBefore = call[t].sizeBefore,
                            !.sizeAfter = get_size(metadata),
                            !.prior = call[t].prior,
                            !.language = call[t].language]]
    /\ call' = [call EXCEPT ![t] = NoCall]

\* ---------------------------------------------------------------- actions
Init ==
    /\ index = NoIndex
    /\ metadata = <<>>
    /\ indexFile = NoFile
    /\ metaFile = NoFile
    /\ pc = [t \in Threads |-> "idle"]
    /\ call = [t \in Threads |-> NoCall]
    /\ result = [t \in Threads |-> NoResult]
    /\ acked = {}
    /\ tracked = NoAck
    /\ restarts = 0
    /\ boot = NoBoot
    /\ faulted = FALSE
    /\ startedEmpty = TRUE
    /\ srch = NoSearch
    /\ overlap = FALSE
    /\ snip = NoSnippet
    /\ http = NoRequest

\* add(content, language) is entered; line 107 computes the hash.
AddCall(t, content, language) ==
    /\ pc[t] = "idle"
    /\ pc' = [pc EXCEPT ![t] = "check"]
    /\ call' = [call EXCEPT ![t] =
           [NoCall EXCEPT !.content = content, !.language = language,
                          !.hash = _compute_hash(content),
                          !.sizeBefore = get_size(metadata),
                          !.prior = PriorAck(content),
                          !.preMeta = metadata, !.preVecs = ntotal(index)]]
    /\ result' = [result EXCEPT ![t] = NoResult]
    /\ boot' = NoBoot
    /\ UNCHANGED <<index, metadata, indexFile, metaFile, acked, tracked, restarts, faulted, startedEmpty, srch, overlap, snip, http>>

\* lines 110-116: the duplicate returns the existing doc_id, added=False.
AddCheck_reembed(t) ==
    /\ pc[t] = "check"
    /\ pc' = [pc EXCEPT ![t] = "embed"]
    /\ UNCHANGED <<call, result>>
    /\ UNCHANGED <<index, metadata, indexFile, metaFile, acked, tracked, restarts, boot, faulted, startedEmpty, srch, overlap, snip, http>>
AddCheck(t) ==
    /\ pc[t] = "check"
    /\ LET existing == _find_existing_content(metadata, call[t].hash) IN
       IF existing # <<>>
       THEN /\ pc' = [pc EXCEPT ![t] = "idle"]
            /\ result' = [result EXCEPT ![t] =
                   [kind |-> "ok", content |-> call[t].content,
                    doc_id |-> existing[1].doc_id, added |-> FALSE,
                    sizeBefore |-> call[t].sizeBefore,
                    sizeAfter |-> get_size(metadata),
                    prior |-> call[t].prior,
                    language |-> call[t].language]]
            /\ call' = [call EXCEPT ![t] = NoCall]
       ELSE /\ pc' = [pc EXCEPT ![t] = "embed"]
            /\ UNCHANGED <<call, result>>
    /\ UNCHANGED <<index, metadata, indexFile, metaFile, acked, tracked, restarts, boot, faulted, startedEmpty, srch, overlap, snip, http>>

\* line 119: the embedder returns a vector, or raises.
AddEmbed_init_first(t) ==
    /\ pc[t] = "embed"
    /\ index' = _initialize_index_if_needed(index)
    /\ \/ /\ pc' = [pc EXCEPT ![t] = "index_add"]
          /\ call' = [call EXCEPT ![t].embedding = embed(call[t].content)]
          /\ UNCHANGED result
       \/ Raise(t, "embed_error")
    /\ UNCHANGED <<metadata, indexFile, metaFile, acked, tracked, restarts, boot, faulted, startedEmpty, srch, overlap, snip, http>>
AddEmbed(t) ==
    /\ pc[t] = "embed"
    /\ \/ /\ pc' = [pc EXCEPT ![t] = "index_add"]
          /\ call' = [call EXCEPT ![t].embedding = embed(call[t].content)]
          /\ UNCHANGED result
       \/ Raise(t, "embed_error")
    /\ UNCHANGED <<index, metadata, indexFile, metaFile, acked, tracked, restarts, boot, faulted, startedEmpty, srch, overlap, snip, http>>

\* lines 120-122: create the index if there is none, add the vector.
AddIndex(t) ==
    /\ pc[t] = "index_add"
    /\ index' = index_add(_initialize_index_if_needed(index), call[t].embedding)
    /\ pc' = [pc EXCEPT ![t] = "create"]
    /\ UNCHANGED <<metadata, indexFile, metaFile, call, result, acked, tracked, restarts, boot, faulted, startedEmpty, srch, overlap, snip, http>>

\* line 125: the new entry takes its ordinal from len(self.metadata).
AddCreate_count_after(t) ==
    /\ pc[t] = "create"
    /\ call' = [call EXCEPT ![t].entry =
           <<[_create_metadata_entry(metadata, call[t].content,
                                     call[t].language, call[t].hash)
                 EXCEPT !.doc_id = DOC_ID_PREFIX \o ToString(Len(metadata) + 1)]>>]
    /\ pc' = [pc EXCEPT ![t] = "append"]
    /\ UNCHANGED <<index, metadata, indexFile, metaFile, result, acked, tracked, restarts, boot, faulted, startedEmpty, srch, overlap, snip, http>>
AddCreate(t) ==
    /\ pc[t] = "create"
    /\ call' = [call EXCEPT ![t].entry =
           <<_create_metadata_entry(metadata, call[t].content,
                                    call[t].language, call[t].hash)>>]
    /\ pc' = [pc EXCEPT ![t] = "append"]
    /\ UNCHANGED <<index, metadata, indexFile, metaFile, result, acked, tracked, restarts, boot, faulted, startedEmpty, srch, overlap, snip, http>>

\* line 126
AddAppend_at_front(t) ==
    /\ pc[t] = "append"
    /\ metadata' = <<call[t].entry[1]>> \o metadata
    /\ pc' = [pc EXCEPT ![t] = "save_index"]
    /\ UNCHANGED <<index, indexFile, metaFile, call, result, acked, tracked, restarts, boot, faulted, startedEmpty, srch, overlap, snip, http>>
AddAppend(t) ==
    /\ pc[t] = "append"
    /\ metadata' = Append(metadata, call[t].entry[1])
    /\ pc' = [pc EXCEPT ![t] = "save_index"]
    /\ UNCHANGED <<index, indexFile, metaFile, call, result, acked, tracked, restarts, boot, faulted, startedEmpty, srch, overlap, snip, http>>

\* _save, line 60-61: faiss.write_index opens index.faiss for writing, which
\* truncates it, or raises and leaves the file as it was.
SaveIndexOpen(t) ==
    /\ pc[t] = "save_index"
    /\ IF index.present
       THEN \/ /\ indexFile' = Truncated
               /\ pc' = [pc EXCEPT ![t] = "save_index_w"]
               /\ UNCHANGED <<call, result, faulted>>
            \/ /\ Raise(t, "persist_error")
               /\ faulted' = TRUE
               /\ UNCHANGED indexFile
       ELSE /\ pc' = [pc EXCEPT ![t] = "save_meta"]
            /\ UNCHANGED <<indexFile, call, result, faulted>>
    /\ UNCHANGED <<index, metadata, metaFile, acked, tracked, restarts, boot, startedEmpty, srch, overlap, snip, http>>

\* _save, line 61: the index is written out completely, or the write raises
\* part-way and leaves a truncated file.
SaveIndexWrite(t) ==
    /\ pc[t] = "save_index_w"
    /\ \/ /\ indexFile' = OkFile(index.vecs)
          /\ pc' = [pc EXCEPT ![t] = "save_meta"]
          /\ UNCHANGED <<call, result, faulted>>
       \/ /\ Raise(t, "persist_error")
          /\ faulted' = TRUE
          /\ UNCHANGED indexFile
    /\ UNCHANGED <<index, metadata, metaFile, acked, tracked, restarts, boot, startedEmpty, srch, overlap, snip, http>>

\* _save, line 62: open(self.metadata_file, "wb") truncates metadata.pkl.
SaveMetaOpen(t) ==
    /\ pc[t] = "save_meta"
    /\ \/ /\ metaFile' = Truncated
          /\ pc' = [pc EXCEPT ![t] = "save_meta_w"]
          /\ UNCHANGED <<call, result, faulted>>
       \/ /\ Raise(t, "persist_error")
          /\ faulted' = TRUE
          /\ UNCHANGED metaFile
    /\ UNCHANGED <<index, metadata, indexFile, acked, tracked, restarts, boot, startedEmpty, srch, overlap, snip, http>>

\* _save, line 63: pickle.dump writes the whole list and the file is closed.
SaveMetaWrite_stale(t) ==
    /\ pc[t] = "save_meta_w"
    /\ metaFile' = OkFile(call[t].preMeta)
    /\ pc' = [pc EXCEPT ![t] = "return"]
    /\ UNCHANGED <<index, metadata, indexFile, call, result, acked, tracked,
                   restarts, boot, faulted, startedEmpty, srch, overlap, snip, http>>
SaveMetaWrite(t) ==
    /\ pc[t] = "save_meta_w"
    /\ \/ /\ metaFile' = OkFile(metadata)
          /\ pc' = [pc EXCEPT ![t] = "return"]
          /\ UNCHANGED <<call, result, faulted>>
       \/ /\ Raise(t, "persist_error")
          /\ faulted' = TRUE
          /\ UNCHANGED metaFile
    /\ UNCHANGED <<index, metadata, indexFile, acked, tracked, restarts, boot, startedEmpty, srch, overlap, snip, http>>

\* lines 129-133: add returns the new doc_id with added=True.
AddReturn(t) ==
    /\ pc[t] = "return"
    /\ pc' = [pc EXCEPT ![t] = "idle"]
    /\ result' = [result EXCEPT ![t] =
           [kind |-> "ok", content |-> call[t].content,
            doc_id |-> call[t].entry[1].doc_id, added |-> TRUE,
            sizeBefore |-> call[t].sizeBefore,
            sizeAfter |-> get_size(metadata),
            prior |-> call[t].prior,
            language |-> call[t].language]]
    /\ acked' = acked \cup {call[t].content}
    /\ tracked' \in {tracked, [content |-> call[t].content,
                               doc_id |-> call[t].entry[1].doc_id,
                               live |-> TRUE]}
    /\ call' = [call EXCEPT ![t] = NoCall]
    /\ UNCHANGED <<index, metadata, indexFile, metaFile, restarts, boot, faulted, startedEmpty, srch, overlap, snip, http>>

\* The process ends (it is stopped between requests, or dies inside add) and
\* is started again: StoreService.__init__ runs _load on the files as they are.
Restart ==
    /\ restarts < MaxRestarts
    /\ LET loaded == _load(indexFile, metaFile)
           dying  == {t \in Threads : pc[t] # "idle"}
           d      == CHOOSE t \in dying : TRUE
       IN /\ index' = loaded.index
          /\ metadata' = loaded.metadata
          /\ boot' = IF dying = {}
                     THEN [kind |-> "clean", idx |-> indexFile, meta |-> metaFile,
                           preMeta |-> metadata, preVecs |-> ntotal(index),
                           inAdd |-> FALSE]
                     ELSE [kind |-> pc[d], idx |-> indexFile, meta |-> metaFile,
                           preMeta |-> call[d].preMeta, preVecs |-> call[d].preVecs,
                           inAdd |-> TRUE]
          /\ faulted' = (faulted \/ dying # {})
          /\ startedEmpty' = (loaded.index = NoIndex /\ loaded.metadata = <<>>)
    /\ pc' = [t \in Threads |-> "idle"]
    /\ call' = [t \in Threads |-> NoCall]
    /\ result' = [t \in Threads |-> NoResult]
    /\ restarts' = restarts + 1
    /\ tracked' = [tracked EXCEPT !.live = FALSE]
    /\ UNCHANGED <<indexFile, metaFile, acked, srch, overlap, snip, http>>

\* _process_content: the ingest handler passes the text and the detected
\* language to add.  One request at a time: the handlers are coroutines on
\* one event loop and add has no suspension point.
_process_content(t, content, language) ==
    /\ Idle
    /\ AddCall(t, content, language)

Next ==
    \/ \E t \in Threads, content \in Contents :
           \E language \in DetectedLanguages(content) :
               _process_content(t, content, language)
    \/ \E t \in Threads : AddCheck(t)
    \/ \E t \in Threads : AddEmbed(t)
    \/ \E t \in Threads : AddIndex(t)
    \/ \E t \in Threads : AddCreate(t)
    \/ \E t \in Threads : AddAppend(t)
    \/ \E t \in Threads : SaveIndexOpen(t)
    \/ \E t \in Threads : SaveIndexWrite(t)
    \/ \E t \in Threads : SaveMetaOpen(t)
    \/ \E t \in Threads : SaveMetaWrite(t)
    \/ \E t \in Threads : AddReturn(t)
    \/ Restart

Spec == Init /\ [][Next]_vars

TypeOK ==
    /\ index.present \in BOOLEAN
    /\ indexFile.st \in {"missing", "corrupt", "ok"}
    /\ metaFile.st \in {"missing", "corrupt", "ok"}
    /\ restarts \in 0..MaxRestarts
    /\ \A t \in Threads : pc[t] \in {"idle", "check", "embed", "index_add",
           "create", "append", "save_index", "save_index_w", "save_meta",
           "save_meta_w", "return"}

\* ------------------------------------------------------------ read path
Min(a, b) == IF a <= b THEN a ELSE b

\* IndexFlatL2 reports the squared Euclidean distance.
Distance(u, v) == (u[1] - v[1]) * (u[1] - v[1]) + (u[2] - v[2]) * (u[2] - v[2])

\* self.index.search(query_array, n), line 166: every answer the index may
\* give.  The n nearest vectors by handle (0-based) with their distances,
\* nearest first; vectors at the same distance come in any order, and any of
\* them may be the ones left out.  n never exceeds the number of vectors here.
MinDistance(ix, q, hs) ==
    CHOOSE d \in {Distance(q, ix.vecs[h + 1]) : h \in hs} :
        \A h \in hs : d <= Distance(q, ix.vecs[h + 1])
RECURSIVE NearestOf(_, _, _, _)
NearestOf(ix, q, hs, n) ==
    IF n = 0 \/ hs = {} THEN {<<>>}
    ELSE UNION {{<<h>> \o rest : rest \in NearestOf(ix, q, hs \ {h}, n - 1)} :
                   h \in {g \in hs : Distance(q, ix.vecs[g + 1]) = MinDistance(ix, q, hs)}}
Nearest(ix, q, n) == NearestOf(ix, q, 0..(ntotal(ix) - 1), n)
IndexAnswers(ix, q, n) ==
    {[i \in 1..Len(f) |-> [idx |-> f[i], distance |-> Distance(q, ix.vecs[f[i] + 1])]] :
        f \in Nearest(ix, q, n)}

\* StoreService._is_valid_index
_is_valid_index(md, idx) == 0 <= idx /\ idx < Len(md)

\* StoreService._build_search_result
_build_search_result(meta, distance) ==
    [doc_id |-> meta.doc_id, score |-> distance,
     language |-> meta.language, content |-> meta.content]

\* lines 168-174: join the valid handles to their records, in index order.
RECURSIVE JoinHits_stop_at_invalid(_, _)
RECURSIVE JoinHits(_, _)
JoinHits_stop_at_invalid(md, hits) ==
    IF hits = <<>> THEN <<>>
    ELSE IF ~_is_valid_index(md, Head(hits).idx) THEN <<>>
         ELSE <<_build_search_result(md[Head(hits).idx + 1], Head(hits).distance)>>
                  \o JoinHits_stop_at_invalid(md, Tail(hits))
JoinHits(md, hits) ==
    IF hits = <<>> THEN <<>>
    ELSE LET rest == JoinHits(md, Tail(hits)) IN
         IF ~_is_valid_index(md, Head(hits).idx) THEN rest
         ELSE <<_build_search_result(md[Head(hits).idx + 1], Head(hits).distance)>> \o rest

\* Python compares doc_id strings character by character.  Every doc_id is
\* the prefix followed by the decimal digits of its ordinal.
RECURSIVE Digits(_)
Digits(n) == IF n < 10 THEN <<n>> ELSE Digits(n \div 10) \o <<n % 10>>
DocIdDigits(doc_id) ==
    Digits(CHOOSE n \in 0..MaxOrdinal : DOC_ID_PREFIX \o ToString(n) = doc_id)
LexLess(a, b) ==
    \E i \in 1..(Min(Len(a), Len(b)) + 1) :
        /\ \A j \in 1..(i - 1) : a[j] = b[j]
        /\ \/ i > Len(a) /\ i <= Len(b)
           \/ i <= Len(a) /\ i <= Len(b) /\ a[i] < b[i]
StrLess(x, y) == LexLess(DocIdDigits(x), DocIdDigits(y))

Take(xs, n) == SubSeq(xs, 1, Min(n, Len(xs)))

\* store.py line 177: key (score, doc_id)
StoreKeyLess_score_only(a, b) == a.score < b.score
StoreKeyLess(a, b) ==
    \/ a.score < b.score
    \/ a.score = b.score /\ StrLess(a.doc_id, b.doc_id)

\* retrieve.py line 104: key (-score, doc_id)
RetrieveKeyLess(a, b) ==
    \/ (0 - a.score) < (0 - b.score)
    \/ a.score = b.score /\ StrLess(a.doc_id, b.doc_id)

\* list.sort(key=...): a stable sort; InsertSorted puts x behind every
\* element that is not greater.  key names the sort key: "store" is the key
\* of store.py line 177, "retrieve" the key of retrieve.py line 104.
KeyLess(key, a, b) ==
    IF key = "store" THEN StoreKeyLess(a, b) ELSE RetrieveKeyLess(a, b)
RECURSIVE InsertSorted(_, _, _)
InsertSorted(key, x, sorted) ==
    IF sorted = <<>> THEN <<x>>
    ELSE IF KeyLess(key, x, Head(sorted)) THEN <<x>> \o sorted
    ELSE <<Head(sorted)>> \o InsertSorted(key, x, Tail(sorted))
RECURSIVE SortBy(_, _)
SortBy(key, xs) ==
    IF xs = <<>> THEN <<>>
    ELSE InsertSorted(key, xs[Len(xs)], SortBy(key, SubSeq(xs, 1, Len(xs) - 1)))

\* line 165
search_k(md, k) == Min(k * SEARCH_K_MULTIPLIER, Len(md))

\* line 160: the early return that never reaches the index.
SearchSkipsIndex_never(ix, md) == FALSE
SearchSkipsIndex(ix, md) == ~ix.present \/ Len(md) = 0

\* StoreService.search, given the answer of the index.
search_untruncated(ix, md, hits, k) ==
    IF SearchSkipsIndex(ix, md) THEN <<>>
    ELSE SortBy("store", JoinHits(md, hits))
search(ix, md, hits, k) ==
    IF SearchSkipsIndex(ix, md) THEN <<>>
    ELSE Take(SortBy("store", JoinHits(md, hits)), k)

\* retrieve.py lines 89-107: one RetrieveResult per search result (its
\* snippet is formed from the content and does not enter the ordering),
\* sorted again and cut to k.
RetrieveResults(search_results, k) ==
    Take(SortBy("retrieve",
                [i \in 1..Len(search_results) |->
                    [doc_id |-> search_results[i].doc_id,
                     score |-> search_results[i].score,
                     language |-> search_results[i].language]]), k)

\* The answers the index may give to the search of the request, none when
\* search returns before line 166.
AnswersFor(ix, md, q, k) ==
    IF SearchSkipsIndex(ix, md) THEN {<<>>}
    ELSE IndexAnswers(ix, q, search_k(md, k))

\* The texts of the ingest requests that are in flight (received, not yet
\* answered) when a read request runs.
InFlight == {call[t].content : t \in DOMAIN call} \ {""}

\* store.search(query_embedding, k) called on the store as it is.
Search(q, k) ==
    /\ \E hits \in AnswersFor(index, metadata, q, k) :
          srch' = [op |-> "search", q |-> q, k |-> k, hits |-> hits,
                   out |-> search(index, metadata, hits, k),
                   embedCalls |-> 0,
                   indexQueries |-> IF SearchSkipsIndex(index, metadata) THEN 0 ELSE 1,
                   nvecs |-> ntotal(index), nrecs |-> Len(metadata),
                        during |-> InFlight,
                   found |-> search(index, metadata, hits, k)]
    /\ UNCHANGED <<index, metadata, indexFile, metaFile, pc, call, result,
                   acked, tracked, restarts, boot, faulted, startedEmpty,
                   overlap, snip, http>>

\* POST /retrieve with a non-empty query text, retrieve.py lines 72-109.
RetrieveSkipsSearch(md) == get_size(md) = 0
Retrieve(text, k) ==
    /\ IF RetrieveSkipsSearch(metadata)
       THEN srch' = [op |-> "retrieve", q |-> <<>>, k |-> k, hits |-> <<>>,
                     out |-> <<>>, embedCalls |-> 0, indexQueries |-> 0,
                     nvecs |-> ntotal(index), nrecs |-> Len(metadata),
                        during |-> InFlight, found |-> <<>>]
       ELSE \E hits \in AnswersFor(index, metadata, embed(text), k) :
               srch' = [op |-> "retrieve", q |-> embed(text), k |-> k, hits |-> hits,
                        out |-> RetrieveResults(
                                    search(index, metadata, hits, k), k),
                        embedCalls |-> 1,
                        indexQueries |-> IF SearchSkipsIndex(index, metadata) THEN 0 ELSE 1,
                        nvecs |-> ntotal(index), nrecs |-> Len(metadata),
                        during |-> InFlight,
                        found |-> search(index, metadata, hits, k)]
    /\ UNCHANGED <<index, metadata, indexFile, metaFile, pc, call, result,
                   acked, tracked, restarts, boot, faulted, startedEmpty,
                   overlap, snip, http>>

\* LLMService.get_citations: the doc_ids of the results that have one.
RECURSIVE get_citations(_)
get_citations(results) ==
    IF results = <<>> THEN <<>>
    ELSE (IF Head(results).doc_id # "" THEN <<Head(results).doc_id>> ELSE <<>>)
             \o get_citations(Tail(results))

\* generate.py lines 83-114: the search results sorted again by
\* (score, doc_id), cut to k, and their doc_ids as citations.
GenerateCitations(search_results, k) ==
    LET results   == Take(SortBy("store", search_results), k)
        citations == get_citations(results)
    IN IF citations = <<>> /\ results # <<>> THEN get_citations(results)
       ELSE citations

\* POST /generate with a non-empty query text, generate.py lines 44-121.
Generate(text, k) ==
    /\ IF get_size(metadata) = 0
       THEN srch' = [op |-> "generate", q |-> <<>>, k |-> k, hits |-> <<>>,
                     out |-> <<>>, embedCalls |-> 0, indexQueries |-> 0,
                     nvecs |-> ntotal(index), nrecs |-> Len(metadata),
                     during |-> InFlight, found |-> <<>>]
       ELSE \E hits \in AnswersFor(index, metadata, embed(text), k) :
               srch' = [op |-> "generate", q |-> embed(text), k |-> k, hits |-> hits,
                        out |-> GenerateCitations(
                                    search(index, metadata, hits, k), k),
                        embedCalls |-> 1,
                        indexQueries |-> IF SearchSkipsIndex(index, metadata) THEN 0 ELSE 1,
                        nvecs |-> ntotal(index), nrecs |-> Len(metadata),
                        during |-> InFlight,
                        found |-> search(index, metadata, hits, k)]
    /\ UNCHANGED <<index, metadata, indexFile, metaFile, pc, call, result,
                   acked, tracked, restarts, boot, faulted, startedEmpty,
                   overlap, snip, http>>

\* The corpora: the stores that adds of distinct texts, each run to its
\* return, build from the empty store.
SearchTexts == {ContentPool[i] : i \in 1..Len(ContentPool)}
Corpora ==
    UNION {{f \in [1..n -> SearchTexts] : \A i, j \in 1..n : i # j => f[i] # f[j]} :
               n \in 0..MaxCorpus}
RECURSIVE BuildMetadata(_)
BuildMetadata(texts) ==
    IF texts = <<>> THEN <<>>
    ELSE LET md == BuildMetadata(SubSeq(texts, 1, Len(texts) - 1))
             c  == texts[Len(texts)]
         IN Append(md, _create_metadata_entry(md, c,
                           CHOOSE l \in DetectedLanguages(c) : TRUE, _compute_hash(c)))
RECURSIVE BuildIndex(_)
BuildIndex(texts) ==
    IF texts = <<>> THEN NoIndex
    ELSE index_add(_initialize_index_if_needed(
                       BuildIndex(SubSeq(texts, 1, Len(texts) - 1))),
                   embed(texts[Len(texts)]))

InitSearch ==
    /\ \E texts \in Corpora :
          /\ metadata = BuildMetadata(texts)
          /\ index = BuildIndex(texts)
          /\ indexFile = (IF texts = <<>> THEN NoFile ELSE OkFile(BuildIndex(texts).vecs))
          /\ metaFile = (IF texts = <<>> THEN NoFile ELSE OkFile(BuildMetadata(texts)))
    /\ pc = [t \in Threads |-> "idle"]
    /\ call = [t \in Threads |-> NoCall]
    /\ result = [t \in Threads |-> NoResult]
    /\ acked = {}
    /\ tracked = NoAck
    /\ restarts = 0
    /\ boot = NoBoot
    /\ faulted = FALSE
    /\ startedEmpty = TRUE
    /\ srch = NoSearch
    /\ overlap = FALSE
    /\ snip = NoSnippet
    /\ http = NoRequest

\* The query texts: one whose vector is at a different distance from every
\* other text, one whose vector is at the same distance from several.
QueryTexts == {ContentPool[1], ContentPool[3]}

NextSearch ==
    \/ \E text \in QueryTexts, k \in 1..MaxK : Search(embed(text), k)
    \/ \E text \in QueryTexts, k \in 1..MaxK : Retrieve(text, k)

SpecSearch == InitSearch /\ [][NextSearch]_vars

\* search on whatever the index answers.  The index is a library object
\* (faiss): for a request of n vectors it gives n (distance, handle) pairs,
\* and search does not rely on the handles being handles of records: a
\* handle may be -1 (no vector) or may have no record.
JoinCorpora == {texts \in Corpora : Len(texts) \in {1, 2}}
Handles(md) == (0 - 1)..(Len(md) + 1)
AnyAnswers(ix, md, q, k) ==
    {[i \in 1..search_k(md, k) |->
         [idx |-> f[i],
          distance |-> IF 0 <= f[i] /\ f[i] < ntotal(ix)
                       THEN Distance(q, ix.vecs[f[i] + 1]) ELSE 0 - 1]] :
        f \in [1..search_k(md, k) -> Handles(md)]}

SearchAnswered(q, k) ==
    /\ \E hits \in AnyAnswers(index, metadata, q, k) :
          srch' = [op |-> "join", q |-> q, k |-> k, hits |-> hits,
                   out |-> search(index, metadata, hits, k),
                   embedCalls |-> 0, indexQueries |-> 1,
                   nvecs |-> ntotal(index), nrecs |-> Len(metadata),
                   during |-> InFlight,
                   found |-> search(index, metadata, hits, k)]
    /\ UNCHANGED <<index, metadata, indexFile, metaFile, pc, call, result,
                   acked, tracked, restarts, boot, faulted, startedEmpty,
                   overlap, snip, http>>

InitJoin ==
    /\ InitSearch
    /\ \E texts \in JoinCorpora : metadata = BuildMetadata(texts)

NextJoin == \E text \in QueryTexts, k \in 1..MaxK : SearchAnswered(embed(text), k)

SpecJoin == InitJoin /\ [][NextJoin]_vars

\* ---------------------------------------------------- concurrent requests
\* Every request is a coroutine on one event loop.  ingest suspends only
\* while it reads the request body (await request.json(), request.form(),
\* file.read()); _process_content and StoreService.add are plain functions,
\* and retrieve has no suspension point: a task that has entered add runs to
\* its return before any other task is resumed.
Tasks == {1, 2}

\* The loop can resume task t: no other task is inside add.
LoopFree(t) == \A u \in DOMAIN pc \ {t} : pc[u] = "idle"

\* An ingest request with the text arrives; its handler awaits the body.
IngestBegin(t, content) ==
    /\ pc[t] = "idle"
    /\ call[t] = NoCall
    /\ call' = [call EXCEPT ![t] = [NoCall EXCEPT !.content = content]]
    /\ result' = [result EXCEPT ![t] = NoResult]
    /\ overlap' = (\E u \in DOMAIN call \ {t} : call[u] # NoCall)
    /\ UNCHANGED <<index, metadata, indexFile, metaFile, pc, acked, tracked,
                   restarts, boot, faulted, startedEmpty, srch, snip, http>>

\* The body is there: the handler is resumed and calls _process_content.
IngestResume_preemptive(t, language) ==
    /\ call[t].content # ""
    /\ AddCall(t, call[t].content, language)
IngestResume(t, language) ==
    /\ LoopFree(t)
    /\ call[t].content # ""
    /\ AddCall(t, call[t].content, language)

\* A read request runs when the loop resumes its handler.
ConcSearch_preemptive(q, k) == Search(q, k)
ConcSearch(q, k) ==
    /\ \A u \in DOMAIN pc : pc[u] = "idle"
    /\ Search(q, k)

InitConc ==
    /\ index = NoIndex
    /\ metadata = <<>>
    /\ indexFile = NoFile
    /\ metaFile = NoFile
    /\ pc = [t \in Tasks |-> "idle"]
    /\ call = [t \in Tasks |-> NoCall]
    /\ result = [t \in Tasks |-> NoResult]
    /\ acked = {}
    /\ tracked = NoAck
    /\ restarts = 0
    /\ boot = NoBoot
    /\ faulted = FALSE
    /\ startedEmpty = TRUE
    /\ srch = NoSearch
    /\ overlap = FALSE
    /\ snip = NoSnippet
    /\ http = NoRequest

NextConc ==
    \/ \E t \in Tasks, content \in Contents : IngestBegin(t, content)
    \/ \E t \in Tasks :
           \E language \in DetectedLanguages(call[t].content) :
               IngestResume(t, language)
    \/ \E t \in Tasks : AddCheck(t)
    \/ \E t \in Tasks : AddEmbed(t)
    \/ \E t \in Tasks : AddIndex(t)
    \/ \E t \in Tasks : AddCreate(t)
    \/ \E t \in Tasks : AddAppend(t)
    \/ \E t \in Tasks : SaveIndexOpen(t)
    \/ \E t \in Tasks : SaveIndexWrite(t)
    \/ \E t \in Tasks : SaveMetaOpen(t)
    \/ \E t \in Tasks : SaveMetaWrite(t)
    \/ \E t \in Tasks : AddReturn(t)

SpecConc == InitConc /\ [][NextConc]_vars

\* One ingest request at a time, and read requests while it is in flight.
NextRead ==
    \/ \E t \in Threads, content \in Contents : IngestBegin(t, content)
    \/ \E t \in Threads :
           \E language \in DetectedLanguages(call[t].content) :
               IngestResume(t, language)
    \/ \E t \in Threads : AddCheck(t)
    \/ \E t \in Threads : AddEmbed(t)
    \/ \E t \in Threads : AddIndex(t)
    \/ \E t \in Threads : AddCreate(t)
    \/ \E t \in Threads : AddAppend(t)
    \/ \E t \in Threads : SaveIndexOpen(t)
    \/ \E t \in Threads : SaveIndexWrite(t)
    \/ \E t \in Threads : SaveMetaOpen(t)
    \/ \E t \in Threads : SaveMetaWrite(t)
    \/ \E t \in Threads : AddReturn(t)
    \/ ConcSearch(embed(ContentPool[1]), 1)

SpecRead == Init /\ [][NextRead]_vars

\* Adds, crashes and restarts, and generate requests between them.
RecoveryTexts == {ContentPool[2], ContentPool[3]}

NextRecovered ==
    \/ \E t \in Threads, content \in RecoveryTexts :
           \E language \in DetectedLanguages(content) :
               _process_content(t, content, language)
    \/ \E t \in Threads : AddCheck(t)
    \/ \E t \in Threads : AddEmbed(t)
    \/ \E t \in Threads : AddIndex(t)
    \/ \E t \in Threads : AddCreate(t)
    \/ \E t \in Threads : AddAppend(t)
    \/ \E t \in Threads : SaveIndexOpen(t)
    \/ \E t \in Threads : SaveIndexWrite(t)
    \/ \E t \in Threads : SaveMetaOpen(t)
    \/ \E t \in Threads : SaveMetaWrite(t)
    \/ \E t \in Threads : AddReturn(t)
    \/ Restart
    \/ \E text \in RecoveryTexts : Idle /\ Generate(text, 1)

SpecRecovered == Init /\ [][NextRecovered]_vars

\* ---------------------------------------------------------------- snippets
\* A Python str is a sequence of characters here.
IsSpace(c) == c \in {" ", "\n", "\r", "\t"}

\* str.split(): the maximal runs of non-whitespace characters, in order.
RECURSIVE SplitAcc(_, _, _)
SplitAcc(xs, word, words) ==
    LET closed == IF word = <<>> THEN words ELSE Append(words, word) IN
    IF xs = <<>> THEN closed
    ELSE IF IsSpace(Head(xs)) THEN SplitAcc(Tail(xs), <<>>, closed)
    ELSE SplitAcc(Tail(xs), Append(word, Head(xs)), words)
split(xs) == SplitAcc(xs, <<>>, <<>>)

\* " ".join(words)
RECURSIVE join(_)
join(words) ==
    IF words = <<>> THEN <<>>
    ELSE IF Len(words) = 1 THEN words[1]
    ELSE words[1] \o <<" ">> \o join(Tail(words))

\* str.rfind(c): the 0-based index of the last c, -1 when there is none.
rfind(xs, c) ==
    IF \E i \in 1..Len(xs) : xs[i] = c
    THEN (CHOOSE i \in 1..Len(xs) :
              xs[i] = c /\ \A j \in (i + 1)..Len(xs) : xs[j] # c) - 1
    ELSE 0 - 1

\* str.rstrip()
rstrip_keep(xs) == xs
rstrip(xs) ==
    LET kept == {i \in 1..Len(xs) : ~IsSpace(xs[i])} IN
    IF kept = {} THEN <<>>
    ELSE SubSeq(xs, 1, CHOOSE i \in kept : \A j \in kept : j <= i)

\* SNIPPET_WORD_BOUNDARY_THRESHOLD = 0.7, as the fraction 7 / 10: for the
\* lengths used here max_length * 0.7 is exact in floating point.
THRESHOLD_NUM == 7
THRESHOLD_DEN == 10

\* utils.py
_normalize_text(content) == join(split(content))

_truncate_at_word_boundary(text, max_length) ==
    LET truncated  == Take(text, max_length)
        last_space == rfind(truncated, " ")
    IN IF THRESHOLD_DEN * last_space > max_length * THRESHOLD_NUM
       THEN rstrip(SubSeq(truncated, 1, last_space))
       ELSE rstrip(truncated)

format_snippet(content, max_length) ==
    LET text == _normalize_text(content) IN
    IF Len(text) <= max_length THEN text
    ELSE _truncate_at_word_boundary(text, max_length)

\* retrieve.py lines 31-59: the handler's own copy.
retrieve_format_snippet(content, max_length) ==
    LET text       == join(split(content))
        truncated  == Take(text, max_length)
        last_space == rfind(truncated, " ")
        snippet    == IF THRESHOLD_DEN * last_space > max_length * THRESHOLD_NUM
                      THEN SubSeq(truncated, 1, last_space)
                      ELSE truncated
    IN IF Len(text) <= max_length THEN text ELSE rstrip(snippet)

\* The texts: up to MaxPieces pieces, each a word of 1, 3 or 7 letters or a
\* run of whitespace.
RECURSIVE Word(_)
Word(n) == IF n = 0 THEN <<>> ELSE <<"a">> \o Word(n - 1)
Pieces == {Word(1), Word(3), Word(7), <<" ">>, <<"\n">>, <<" ", "\r", "\t">>}
RECURSIVE TextsOf(_)
TextsOf(n) ==
    IF n = 0 THEN {<<>>}
    ELSE LET shorter == TextsOf(n - 1) IN
         shorter \cup {t \o piece : t \in shorter, piece \in Pieces}
SnippetTexts == TextsOf(MaxPieces)
SnippetLengths == {3, 4, 10}

FormatSnippet ==
    /\ ~snip.done
    /\ snip.by = "utils"
    /\ snip' = [snip EXCEPT !.out = format_snippet(snip.content, snip.max_length),
                            !.done = TRUE]
    /\ UNCHANGED <<index, metadata, indexFile, metaFile, pc, call, result,
                   acked, tracked, restarts, boot, faulted, startedEmpty,
                   srch, overlap, http>>

RetrieveFormatSnippet ==
    /\ ~snip.done
    /\ snip.by = "retrieve"
    /\ snip' = [snip EXCEPT !.out = retrieve_format_snippet(snip.content, snip.max_length),
                            !.done = TRUE]
    /\ UNCHANGED <<index, metadata, indexFile, metaFile, pc, call, result,
                   acked, tracked, restarts, boot, faulted, startedEmpty,
                   srch, overlap, http>>

InitSnippet ==
    /\ index = NoIndex
    /\ metadata = <<>>
    /\ indexFile = NoFile
    /\ metaFile = NoFile
    /\ pc = [t \in Threads |-> "idle"]
    /\ call = [t \in Threads |-> NoCall]
    /\ result = [t \in Threads |-> NoResult]
    /\ acked = {}
    /\ tracked = NoAck
    /\ restarts = 0
    /\ boot = NoBoot
    /\ faulted = FALSE
    /\ startedEmpty = TRUE
    /\ srch = NoSearch
    /\ overlap = FALSE
    /\ http = NoRequest
    /\ \E content \in SnippetTexts, max_length \in SnippetLengths,
          by \in {"utils", "retrieve"} :
          snip = [content |-> content, max_length |-> max_length,
                  out |-> <<>>, done |-> FALSE, by |-> by]

NextSnippet ==
    \/ FormatSnippet
    \/ RetrieveFormatSnippet

SpecSnippet == InitSnippet /\ [][NextSnippet]_vars

\* ------------------------------------------------------------ http requests
\* main.py: every request passes auth_middleware before its route handler.
HEALTH_CHECK_PATH == "/health"
INGEST_PATH       == "/ingest"
RETRIEVE_PATH     == "/retrieve"
GENERATE_PATH     == "/generate"
Paths == {HEALTH_CHECK_PATH, INGEST_PATH, RETRIEVE_PATH, GENERATE_PATH}

\* The X-API-Key header of a request ("" when there is none) and the key
\* the server reads from its environment ("" when none is configured).
RequestKeys == {"", "secret", "wrong"}
ServerKeys  == {"", "secret"}

\* The decoded text of an ingest request, character by character.
ContentChars == <<<<"a", "l", "p", "h", "a">>, <<"b", "e", "t", "a">>,
                  <<"g", "a", "m", "m", "a">>, <<"d", "e", "l", "t", "a">>,
                  <<"e", "p", "s", "i", "l", "o", "n">>>>
BlankTexts  == {<<>>, <<" ">>, <<"\n", " ">>, <<"\t", "\r">>}
IngestTexts == BlankTexts \cup {ContentChars[i] : i \in 1..NumContents}
Bodies(path) == IF path = INGEST_PATH THEN IngestTexts ELSE {<<>>}

\* The str the characters make.
RECURSIVE Concat(_)
Concat(xs) == IF xs = <<>> THEN "" ELSE Head(xs) \o Concat(Tail(xs))

\* str.strip()
strip(xs) ==
    LET kept == {i \in 1..Len(xs) : ~IsSpace(xs[i])} IN
    IF kept = {} THEN <<>>
    ELSE SubSeq(xs, CHOOSE i \in kept : \A j \in kept : i <= j,
                    CHOOSE i \in kept : \A j \in kept : j <= i)

\* main.py lines 43-68.  call_next runs the route handler; the health
\* handler answers 200 at once, the other handlers answer below.
Respond(path, key, expected, body, status, message, handled) ==
    [path |-> path, key |-> key, expected |-> expected, body |-> body,
     status |-> status, message |-> message, handled |-> handled]
auth_middleware_any_key(path, key, body) ==
    /\ Idle
    /\ http' = IF path = HEALTH_CHECK_PATH
               THEN Respond(path, key, http.expected, body, 200, "", TRUE)
               ELSE IF key = ""
               THEN Respond(path, key, http.expected, body, 401,
                            "Missing X-API-Key header", FALSE)
               ELSE IF http.expected = ""
               THEN Respond(path, key, http.expected, body, 500,
                            "API key not configured on server", FALSE)
               ELSE Respond(path, key, http.expected, body, 0, "", TRUE)
    /\ result' = [t \in Threads |-> NoResult]
    /\ srch' = NoSearch
    /\ UNCHANGED <<index, metadata, indexFile, metaFile, pc, call, acked,
                   tracked, restarts, boot, faulted, startedEmpty, overlap, snip>>
auth_middleware(path, key, body) ==
    /\ Idle
    /\ http' = IF path = HEALTH_CHECK_PATH
               THEN Respond(path, key, http.expected, body, 200, "", TRUE)
               ELSE IF key = ""
               THEN Respond(path, key, http.expected, body, 401,
                            "Missing X-API-Key header", FALSE)
               ELSE IF http.expected = ""
               THEN Respond(path, key, http.expected, body, 500,
                            "API key not configured on server", FALSE)
               ELSE IF key # http.expected
               THEN Respond(path, key, http.expected, body, 401,
                            "Invalid or missing API key", FALSE)
               ELSE Respond(path, key, http.expected, body, 0, "", TRUE)
    /\ result' = [t \in Threads |-> NoResult]
    /\ srch' = NoSearch
    /\ UNCHANGED <<index, metadata, indexFile, metaFile, pc, call, acked,
                   tracked, restarts, boot, faulted, startedEmpty, overlap, snip>>

\* The request that passed the middleware is at its route handler and has
\* not been answered.
AtHandler(path) == http.handled /\ http.path = path /\ http.status = 0

\* ingest.py: the handler decodes the body and calls _process_content,
\* lines 14-37: a text that is empty or all whitespace is answered 400
\* before the language is detected and before add is called.
IngestHandler_unchecked(t) ==
    /\ AtHandler(INGEST_PATH)
    /\ result[t] = NoResult
    /\ \E language \in DetectedLanguages(Concat(http.body)) :
             _process_content(t, Concat(http.body), language)
IngestHandler(t) ==
    /\ AtHandler(INGEST_PATH)
    /\ result[t] = NoResult
    /\ IF http.body = <<>> \/ strip(http.body) = <<>>
       THEN /\ Idle
            /\ result' = [result EXCEPT ![t] =
                   [NoResult EXCEPT !.kind = "empty_content",
                                    !.content = Concat(http.body),
                                    !.sizeBefore = get_size(metadata),
                                    !.sizeAfter = get_size(metadata)]]
            /\ UNCHANGED <<index, metadata, indexFile, metaFile, pc, call,
                           acked, tracked, restarts, boot, faulted,
                           startedEmpty, srch, overlap, snip, http>>
       ELSE \E language \in DetectedLanguages(Concat(http.body)) :
                _process_content(t, Concat(http.body), language)

RetrieveHandler ==
    /\ AtHandler(RETRIEVE_PATH)
    /\ srch = NoSearch
    /\ Retrieve(ContentPool[1], 1)

GenerateHandler ==
    /\ AtHandler(GENERATE_PATH)
    /\ srch = NoSearch
    /\ Generate(ContentPool[1], 1)

InitHttp ==
    /\ index = NoIndex
    /\ metadata = <<>>
    /\ indexFile = NoFile
    /\ metaFile = NoFile
    /\ pc = [t \in Threads |-> "idle"]
    /\ call = [t \in Threads |-> NoCall]
    /\ result = [t \in Threads |-> NoResult]
    /\ acked = {}
    /\ tracked = NoAck
    /\ restarts = 0
    /\ boot = NoBoot
    /\ faulted = FALSE
    /\ startedEmpty = TRUE
    /\ srch = NoSearch
    /\ overlap = FALSE
    /\ snip = NoSnippet
    /\ \E expected \in ServerKeys : http = [NoRequest EXCEPT !.expected = expected]

NextHttp ==
    \/ \E path \in Paths, key \in RequestKeys :
           \E body \in Bodies(path) : auth_middleware(path, key, body)
    \/ \E t \in Threads : IngestHandler(t)
    \/ RetrieveHandler
    \/ GenerateHandler
    \/ \E t \in Threads : AddCheck(t)
    \/ \E t \in Threads : AddEmbed(t)
    \/ \E t \in Threads : AddIndex(t)
    \/ \E t \in Threads : AddCreate(t)
    \/ \E t \in Threads : AddAppend(t)
    \/ \E t \in Threads : SaveIndexOpen(t)
    \/ \E t \in Threads : SaveIndexWrite(t)
    \/ \E t \in Threads : SaveMetaOpen(t)
    \/ \E t \in Threads : SaveMetaWrite(t)
    \/ \E t \in Threads : AddReturn(t)

SpecHttp == InitHttp /\ [][NextHttp]_vars

\* ------------------------------------------------------------- properties
HasRecord(md, doc_id, content) ==
    \E i \in 1..Len(md) : md[i].doc_id = doc_id /\ md[i].content = content

RecordsOf(md, content) == {i \in 1..Len(md) : md[i].content = content}

\* Every handle of the index is the position of the record whose text
\* produced the vector stored under it.
Aligned(ix, md) ==
    /\ ntotal(ix) = Len(md)
    /\ \A h \in 1..Len(md) : ix.vecs[h] = embed(md[h].content)

\* C1: once this store has returned doc_id d with added=True for a text, a
\* later add of the same text does not reach the embedder, returns d with
\* added=False and leaves the size as it was; the add that returned
\* added=True raised the size by exactly one.
C1_IdempotentAdd ==
    \A t \in Threads :
        /\ call[t].prior # {} => pc[t] \in {"idle", "check"}
        /\ result[t].prior # {} =>
              /\ result[t].kind = "ok"
              /\ ~result[t].added
              /\ result[t].doc_id \in result[t].prior
              /\ result[t].sizeAfter = result[t].sizeBefore
        /\ (result[t].kind = "ok" /\ result[t].added) =>
              result[t].sizeAfter = result[t].sizeBefore + 1

C1_Witness ==
    \E t \in Threads :
        /\ result[t].kind = "ok" /\ ~result[t].added
        /\ result[t].prior = {result[t].doc_id}
        /\ result[t].sizeBefore >= 1

\* C2: no two records of the record list have the same content hash, in
\* every state reached by adds and restarts; and as long as no persist step
\* was cut short, each text whose add returned added=True has exactly one
\* record.
C2_HashUnique ==
    /\ \A i, j \in 1..Len(metadata) :
           i # j => metadata[i].hash # metadata[j].hash
    /\ ~faulted => \A c \in acked : Cardinality(RecordsOf(metadata, c)) = 1

C2_Witness ==
    /\ restarts >= 1
    /\ Len(metadata) >= 2
    /\ \E t \in Threads : result[t].kind = "ok" /\ ~result[t].added

\* C3: in a process that started with an empty store, whenever no add is in
\* progress the index holds as many vectors as there are records and the
\* record at list position i has 'index' = i (0-based), also after adds that
\* failed in the embedder or in the persist step.
C3_Lockstep ==
    (startedEmpty /\ Idle) =>
        /\ ntotal(index) = Len(metadata)
        /\ \A i \in 1..Len(metadata) : metadata[i].index = i - 1

C3_Witness ==
    /\ startedEmpty /\ Idle
    /\ Len(metadata) >= 2
    /\ \E t \in Threads : result[t].kind = "persist_error"

\* C4: an add that returned added=True with doc_id d is never lost: after
\* any later crash and restart the store still holds the record d with the
\* same text.
C4_Durable ==
    tracked # NoAck => HasRecord(metadata, tracked.doc_id, tracked.content)

\* C5: if the process dies inside an add, the store after the restart has
\* the record list and the vector count it had before that add started.
C5_AtomicUnacked ==
    boot.inAdd => (metadata = boot.preMeta /\ ntotal(index) = boot.preVecs)

\* C6: in every process started after the first, whenever no add is in
\* progress, the index and the record list have the same cardinality and
\* every handle maps to the record whose text produced its vector.
C6_AlignedAfterRestart ==
    (restarts >= 1 /\ Idle) => Aligned(index, metadata)

\* C7: when start-up finds both artifacts readable but with different
\* cardinalities, it adopts neither and starts empty.
C7_MismatchResets ==
    (boot.kind # "none" /\ boot.idx.st = "ok" /\ boot.meta.st = "ok"
        /\ Len(boot.idx.data) # Len(boot.meta.data))
    => (index = NoIndex /\ metadata = <<>> /\ get_size(metadata) = 0)

\* C8: when start-up finds an artifact missing or unreadable, the store
\* starts with no index and no records, never with one side loaded.
C8_UnreadableResets ==
    (boot.kind # "none" /\ (boot.idx.st # "ok" \/ boot.meta.st # "ok"))
    => (index = NoIndex /\ metadata = <<>>)

C8_Witness ==
    /\ boot.kind # "none"
    /\ boot.idx.st = "ok" /\ Len(boot.idx.data) >= 1
    /\ boot.meta.st = "corrupt"
    /\ Idle

\* C9: a restart between requests, when no persist step was ever cut short
\* or raised, gives back the same record list and the same number of
\* vectors, and the size is the number of texts whose add had returned
\* added=True.
C9_RestartRoundTrip ==
    (boot.kind = "clean" /\ ~faulted) =>
        /\ metadata = boot.preMeta
        /\ ntotal(index) = boot.preVecs
        /\ get_size(metadata) = Cardinality(acked)

C9_Witness ==
    /\ boot.kind = "clean" /\ ~faulted
    /\ Len(metadata) >= 2

\* C10: when add is about to return added=True, metadata.pkl holds the new
\* record as its last entry, index.faiss holds the new vector, and the two
\* files hold the same number of items.
C10_PersistBeforeAck ==
    \A t \in Threads : pc[t] = "return" =>
        /\ metaFile.st = "ok"
        /\ Len(metaFile.data) >= 1
        /\ metaFile.data[Len(metaFile.data)] = call[t].entry[1]
        /\ indexFile.st = "ok"
        /\ \E h \in 1..Len(indexFile.data) : indexFile.data[h] = call[t].embedding
        /\ Len(indexFile.data) = Len(metaFile.data)

\* C13: for a fixed corpus, query vector and k, search returns the same list
\* whatever legal answer the index gives: vectors at equal distance in any
\* order, any of them left out at the over-fetch cut-off.
C13_DeterministicSearch ==
    srch.op = "search" =>
        \A hits \in AnswersFor(index, metadata, srch.q, srch.k) :
            search(index, metadata, hits, srch.k) = srch.out

\* C14: consecutive entries of a search result have non-decreasing scores,
\* and at equal scores doc_ids in non-decreasing lexical order.
C14_SearchOrdered ==
    srch.op = "search" =>
        \A i \in 1..(Len(srch.out) - 1) :
            /\ srch.out[i].score <= srch.out[i + 1].score
            /\ srch.out[i].score = srch.out[i + 1].score =>
                  ~StrLess(srch.out[i + 1].doc_id, srch.out[i].doc_id)

C14_Witness ==
    /\ srch.op = "search"
    /\ Len(srch.out) >= 2
    /\ srch.out[1].score = srch.out[2].score
    /\ Len(srch.hits) >= 2
    /\ srch.hits[1].distance = srch.hits[2].distance
    /\ srch.hits[1].idx > srch.hits[2].idx

\* C15: a search result has at most min(k, Size()) entries and no doc_id
\* twice.
C15_BoundedResult ==
    srch.op = "search" =>
        /\ Len(srch.out) <= Min(srch.k, get_size(metadata))
        /\ \A i, j \in 1..Len(srch.out) :
               i # j => srch.out[i].doc_id # srch.out[j].doc_id

C15_Witness ==
    /\ srch.op = "search"
    /\ srch.k < get_size(metadata)
    /\ Len(srch.hits) > srch.k
    /\ Len(srch.out) = srch.k

\* C16: on a store with no records search returns the empty list without a
\* query to the index, and the retrieve endpoint returns no results without
\* a call of the embedder.
C16_EmptyStore ==
    (srch.op # "none" /\ Len(metadata) = 0) =>
        /\ srch.out = <<>>
        /\ srch.indexQueries = 0
        /\ srch.op = "retrieve" => srch.embedCalls = 0

C16_Witness ==
    /\ srch.op = "search"
    /\ metadata = <<>>
    /\ srch.k = MaxK
    /\ srch.out = <<>>

\* C17: the results of the retrieve endpoint have non-decreasing scores.
C17_RetrieveOrdered ==
    srch.op = "retrieve" =>
        \A i \in 1..(Len(srch.out) - 1) :
            srch.out[i].score <= srch.out[i + 1].score

\* C18: an add whose hash already belongs to a record returns from the hash
\* check with added=False: it never reaches the embedder, and the step
\* leaves the index, the record list and both files as they were.
C18_DuplicateNoSideEffects ==
    [][\A t \in Threads :
          (pc[t] = "check" /\ Matches(metadata, call[t].hash) # {}
                           /\ restarts' = restarts) =>
              /\ pc'[t] = "idle"
              /\ result'[t].kind = "ok"
              /\ result'[t].added = FALSE
              /\ UNCHANGED <<index, metadata, indexFile, metaFile>>]_vars

C18_Witness ==
    /\ restarts = 0 /\ ~faulted
    /\ \E t \in Threads :
          /\ pc[t] = "idle"
          /\ result[t].kind = "ok" /\ ~result[t].added
          /\ result[t].sizeAfter = result[t].sizeBefore
    /\ indexFile = OkFile(index.vecs)
    /\ metaFile = OkFile(metadata)

\* C19: an add that returns added=True returns the prefix followed by the
\* number of records the store held when the call began, and the record at
\* list position i (from 1) carries the ordinal i - 1: the ordinals run 0, 1,
\* 2, ... in insertion order without gap or repeat.
C19_OrdinalDocId ==
    /\ \A i \in 1..Len(metadata) :
           metadata[i].doc_id = DOC_ID_PREFIX \o ToString(i - 1)
    /\ \A t \in Threads :
           (result[t].kind = "ok" /\ result[t].added) =>
               result[t].doc_id = DOC_ID_PREFIX \o ToString(result[t].sizeBefore)

C19_Witness ==
    /\ startedEmpty /\ restarts = 0
    /\ Len(metadata) >= 2
    /\ metadata[1].doc_id = DOC_ID_PREFIX \o "0"
    /\ \E t \in Threads :
          /\ result[t].kind = "ok" /\ result[t].added
          /\ result[t].sizeBefore = 1
          /\ result[t].doc_id = DOC_ID_PREFIX \o "1"

\* C11: two ingest requests with the same text that are in flight together
\* insert one vector and one record: no text has two records, the index and
\* the record list have the same length when no add is running, both calls
\* return the same doc_id, and exactly one of them returns added=True unless
\* the record was there before both.
C11_ConcurrentDuplicateAdd ==
    /\ \A c \in Contents : Cardinality(RecordsOf(metadata, c)) <= 1
    /\ (\A t \in Tasks : pc[t] = "idle") => ntotal(index) = Len(metadata)
    /\ \A t, u \in Tasks :
           (/\ t # u /\ overlap
            /\ result[t].kind = "ok" /\ result[u].kind = "ok"
            /\ result[t].content = result[u].content) =>
               /\ result[t].doc_id = result[u].doc_id
               /\ \/ result[t].added # result[u].added
                  \/ /\ ~result[t].added /\ ~result[u].added
                     /\ \E i \in 1..Min(result[t].sizeBefore, result[u].sizeBefore) :
                            metadata[i].content = result[t].content

C11_Witness ==
    /\ overlap
    /\ \E t, u \in Tasks :
          /\ t # u
          /\ result[t].kind = "ok" /\ result[u].kind = "ok"
          /\ result[t].content = result[u].content
          /\ result[t].added /\ ~result[u].added
          /\ result[t].doc_id = result[u].doc_id

\* C12: no search, retrieve or size query that runs while an ingest request
\* is in flight sees an index and a record list of different lengths.
C12_AtomicForReaders ==
    (srch.op # "none" /\ srch.during # {}) => srch.nvecs = srch.nrecs

C12_Witness ==
    /\ srch.op = "search"
    /\ srch.during # {}
    /\ srch.nrecs >= 1
    /\ srch.nvecs = srch.nrecs
    /\ Len(metadata) > srch.nrecs

\* C20: a doc_id that an add has returned for one text is never returned by
\* a later add for a different text, across crashes and restarts.
C20_DocIdNeverReused ==
    tracked # NoAck =>
        \A t \in Threads :
            (result[t].kind = "ok" /\ result[t].doc_id = tracked.doc_id) =>
                result[t].content = tracked.content

\* C21: no add and no search changes a record that exists: every record
\* keeps its position and all its fields, and an add of a stored text under
\* another language tag returns added=False and leaves the stored tag.
C21_RecordsImmutable ==
    [][/\ \A i \in 1..Len(metadata) :
             Len(metadata') >= i /\ metadata'[i] = metadata[i]
       /\ \A t \in Threads :
             (pc[t] = "check" /\ pc'[t] = "idle" /\
              \E i \in 1..Len(metadata) :
                  /\ metadata[i].content = call[t].content
                  /\ metadata[i].language # call[t].language) =>
                 (result'[t].kind = "ok" /\ ~result'[t].added)]_vars

C21_Witness ==
    /\ srch.op = "search"
    /\ \E t \in Threads, i \in 1..Len(metadata) :
          /\ result[t].kind = "ok" /\ ~result[t].added
          /\ metadata[i].content = result[t].content
          /\ metadata[i].doc_id = result[t].doc_id
          /\ metadata[i].language # result[t].language

\* C24: a snippet is at most max_length long, has no newline or carriage
\* return, no leading or trailing whitespace; when the whitespace-collapsed
\* text fits, the snippet is that text: the words of the input in order,
\* single spaces between them.
C24_SnippetContract ==
    snip.done =>
        LET out == snip.out
            collapsed == _normalize_text(snip.content)
            letters(xs) == SelectSeq(xs, LAMBDA c : ~IsSpace(c))
        IN /\ Len(out) <= snip.max_length
           /\ \A i \in 1..Len(out) : out[i] \notin {"\n", "\r"}
           /\ out # <<>> => (~IsSpace(out[1]) /\ ~IsSpace(out[Len(out)]))
           /\ Len(collapsed) <= snip.max_length =>
                 /\ out = collapsed
                 /\ letters(out) = letters(snip.content)
                 /\ \A i \in 1..(Len(out) - 1) : ~(out[i] = " " /\ out[i + 1] = " ")
                 /\ \A i \in 1..Len(out) : IsSpace(out[i]) => out[i] = " "

C24_Witness ==
    /\ snip.done
    /\ \E i \in 1..Len(snip.content) : snip.content[i] = "\n"
    /\ IsSpace(snip.content[1])
    /\ Len(_normalize_text(snip.content)) > snip.max_length
    /\ Len(snip.out) < snip.max_length
    /\ snip.out # <<>>

\* C25: when the collapsed text is longer than max_length and p is the index
\* of the last space in its first max_length characters, the snippet is the
\* first p characters if p >= max_length * 0.7 (equality included), else
\* the first max_length characters, trailing whitespace stripped.
C25_WordBoundary ==
    (snip.done /\ Len(_normalize_text(snip.content)) > snip.max_length) =>
        LET text == _normalize_text(snip.content)
            p    == rfind(Take(text, snip.max_length), " ")
        IN snip.out = IF THRESHOLD_DEN * p >= snip.max_length * THRESHOLD_NUM
                      THEN rstrip(SubSeq(text, 1, p))
                      ELSE rstrip(Take(text, snip.max_length))

\* C27: the citations of a generate response are empty on an empty corpus
\* (no embedder call, no search); on a non-empty corpus they are at least
\* one and at most k doc_ids, the doc_ids of the search results in the order
\* of the search.
C27_GenerateCitations ==
    srch.op = "generate" =>
        IF srch.nrecs = 0
        THEN srch.out = <<>> /\ srch.embedCalls = 0 /\ srch.indexQueries = 0
        ELSE /\ Len(srch.out) >= 1
             /\ Len(srch.out) <= srch.k
             /\ Len(srch.out) <= Len(srch.found)
             /\ \A i \in 1..Len(srch.out) : srch.out[i] = srch.found[i].doc_id

\* C23: when the embedder fails in an add of new content, the call ends
\* with that error after the one embedder call, and the record list, the
\* index (whether it exists included) and both files are as they were when
\* the call began: the size is unchanged and the content is still unknown,
\* so a retry takes the write path again.
C23_EmbedderFailure ==
    [][\A t \in Threads :
          /\ (pc[t] \in {"check", "embed"} /\ restarts' = restarts)
                => /\ UNCHANGED <<index, metadata, indexFile, metaFile>>
                   /\ metadata = call[t].preMeta
                   /\ ntotal(index) = call[t].preVecs
          /\ (pc[t] = "embed" /\ pc'[t] = "idle" /\ restarts' = restarts)
                => /\ result'[t].kind = "embed_error"
                   /\ result'[t].content = call[t].content
                   /\ result'[t].sizeAfter = result'[t].sizeBefore
                   /\ result'[t].sizeAfter = get_size(metadata')
                   /\ _find_existing_content(metadata',
                          _compute_hash(call[t].content)) = <<>>]_vars

C23_Witness ==
    \E t \in Threads :
        /\ result[t].kind = "embed_error"
        /\ pc[t] = "idle"
        /\ Len(metadata) >= 1
        /\ _find_existing_content(metadata, _compute_hash(result[t].content)) = <<>>

\* C29: when the persist step of an add of new content fails, the record
\* list and the index are as they were before the call: the size is
\* unchanged and the content is not in the store, so a retry takes the
\* write path again.
C29_PersistFailureUnchanged ==
    \A t \in Threads :
        result[t].kind = "persist_error" =>
            /\ result[t].sizeAfter = result[t].sizeBefore
            /\ _find_existing_content(metadata,
                   _compute_hash(result[t].content)) = <<>>

\* C30: on a store whose index and records are in lockstep, search(v, k)
\* returns exactly min(k, Size()) entries, the first min(k, Size()) records
\* of the whole corpus ordered by distance to v and then by doc_id.
C30_TrueTopK ==
    (srch.op = "search" /\ ntotal(index) = Len(metadata)) =>
        LET all == [i \in 1..Len(metadata) |->
                       _build_search_result(metadata[i],
                                            Distance(srch.q, index.vecs[i]))]
        IN srch.out = Take(SortBy("store", all), Min(srch.k, get_size(metadata)))

\* C28: search drops every handle of the index answer that is negative or
\* not below the number of records, without an error, and every entry of
\* its result is the record at the position of a valid handle of the
\* answer (doc_id, language, content) with the distance reported for it;
\* no valid candidate is lost other than by the cut to k.
C28_InvalidHandlesIgnored ==
    srch.op = "join" =>
        LET valid == {i \in 1..Len(srch.hits) :
                         srch.hits[i].idx >= 0 /\ srch.hits[i].idx < Len(metadata)}
        IN /\ Len(srch.out) = Min(srch.k, Cardinality(valid))
           /\ \A j \in 1..Len(srch.out) : \E i \in valid :
                  /\ srch.out[j].doc_id = metadata[srch.hits[i].idx + 1].doc_id
                  /\ srch.out[j].language = metadata[srch.hits[i].idx + 1].language
                  /\ srch.out[j].content = metadata[srch.hits[i].idx + 1].content
                  /\ srch.out[j].score = srch.hits[i].distance

C28_Witness ==
    /\ srch.op = "join"
    /\ Len(srch.hits) = 2
    /\ srch.hits[1].idx < 0
    /\ srch.hits[2].idx = 0
    /\ Len(srch.out) = 1
    /\ srch.out[1].doc_id = metadata[1].doc_id

\* C22: an ingest request whose text is empty or all whitespace is answered
\* with the empty-content error (status 400) before the language is
\* detected and before add is entered: the record list, the index and both
\* files are unchanged and no add call begins.
C22_EmptyContentRejected ==
    [][\A t \in Threads :
          (/\ http.path = INGEST_PATH
           /\ \A i \in 1..Len(http.body) : http.body[i] \in {" ", "\n", "\r", "\t"}
           /\ http' = http)
             => /\ UNCHANGED <<index, metadata, indexFile, metaFile, pc, call>>
                /\ result'[t] # NoResult =>
                      /\ result'[t].kind = "empty_content"
                      /\ result'[t].language = ""
                      /\ result'[t].doc_id = ""
                      /\ ~result'[t].added
                      /\ result'[t].sizeAfter = result'[t].sizeBefore]_vars

C22_Witness ==
    \E t \in Threads :
        /\ result[t].kind = "empty_content"
        /\ http.path = INGEST_PATH
        /\ Len(http.body) >= 2
        /\ Len(metadata) >= 1
        /\ metaFile.st = "ok"

====
